---- MODULE Spec2Model ----
(***************************************************************************)
(* Model of vcpsave (src/main.go): a scheduled backup of local paths to a  *)
(* cloud bucket followed by a retention cleanup of the uploaded objects.   *)
(*                                                                         *)
(* Strings are TLA+ strings; a character is a string of length one.       *)
(* Instants are whole seconds of local wall-clock time counted from        *)
(* 1970-01-01 00:00:00 of the local zone (a fixed-offset zone, so that     *)
(* time.Now().Format and time.ParseInLocation(..., time.Local) are exact   *)
(* inverses on valid dates).  A time.Duration is a number of seconds.      *)
(***************************************************************************)
EXTENDS Integers, Sequences, FiniteSets, TLC

(***************************************************************************)
(* Characters and strings                                                  *)
(***************************************************************************)
At(s, i) == SubSeq(s, i, i)

From(s, i) == SubSeq(s, i, Len(s))

Digits == {"0", "1", "2", "3", "4", "5", "6", "7", "8", "9"}

IsDigit(c) == c \in Digits

DigitValues == [c \in Digits |-> CHOOSE d \in 0..9 : At("0123456789", d + 1) = c]

DigitVal(c) == DigitValues[c]

DigitChar(d) == At("0123456789", d + 1)

AllDigits(s, lo, hi) == \A i \in lo..hi : IsDigit(At(s, i))

RECURSIVE NumVal(_)
NumVal(s) ==
  IF s = "" THEN 0
  ELSE 10 * NumVal(SubSeq(s, 1, Len(s) - 1)) + DigitVal(At(s, Len(s)))

\* unicode.IsSpace, restricted to the white space the model's alphabet has
IsSpace(c) == c \in {" ", "\t", "\n"}

RECURSIVE TrimLeftSpace(_)
TrimLeftSpace(s) ==
  IF s # "" /\ IsSpace(At(s, 1)) THEN TrimLeftSpace(Tail(s)) ELSE s

RECURSIVE TrimRightSpace(_)
TrimRightSpace(s) ==
  IF s # "" /\ IsSpace(At(s, Len(s)))
  THEN TrimRightSpace(SubSeq(s, 1, Len(s) - 1))
  ELSE s

\* strings.TrimSpace
TrimSpace(s) == TrimRightSpace(TrimLeftSpace(s))

\* index of the first character c of s at or after i, 0 when there is none
RECURSIVE IndexOf(_, _, _)
IndexOf(s, c, i) ==
  IF i > Len(s) THEN 0
  ELSE IF At(s, i) = c THEN i
  ELSE IndexOf(s, c, i + 1)

\* strings.Split(s, sep) for a one-character sep: always at least one piece
RECURSIVE Split(_, _)
Split(s, sep) ==
  LET i == IndexOf(s, sep, 1) IN
  IF i = 0 THEN <<s>>
  ELSE <<SubSeq(s, 1, i - 1)>> \o Split(From(s, i + 1), sep)

\* the loop shared by parseSourcePaths and getWhiteList: trim, drop empties
RECURSIVE TrimmedNonEmpty(_)
TrimmedNonEmpty(parts) ==
  IF parts = <<>> THEN <<>>
  ELSE LET t == TrimSpace(Head(parts)) IN
       (IF t # "" THEN <<t>> ELSE <<>>) \o TrimmedNonEmpty(Tail(parts))

\* strconv.Atoi: optional sign, then one or more decimal digits
Atoi(s) ==
  LET signed == s # "" /\ At(s, 1) \in {"+", "-"}
      body   == IF signed THEN Tail(s) ELSE s
      good   == body # "" /\ AllDigits(body, 1, Len(body))
  IN  [err |-> ~good,
       val |-> IF ~good THEN 0
               ELSE IF signed /\ At(s, 1) = "-" THEN 0 - NumVal(body)
               ELSE NumVal(body)]

(***************************************************************************)
(* path/filepath (separator "/")                                           *)
(***************************************************************************)
RECURSIVE StripTrailingSlashes(_)
StripTrailingSlashes(p) ==
  IF p # "" /\ At(p, Len(p)) = "/"
  THEN StripTrailingSlashes(SubSeq(p, 1, Len(p) - 1))
  ELSE p

RECURSIVE LastIndexOf(_, _, _)
LastIndexOf(s, c, i) ==
  IF i = 0 THEN 0
  ELSE IF At(s, i) = c THEN i
  ELSE LastIndexOf(s, c, i - 1)

\* filepath.Base
Base(path) ==
  IF path = "" THEN "."
  ELSE LET p == StripTrailingSlashes(path)
           q == From(p, LastIndexOf(p, "/", Len(p)) + 1)
       IN  IF q = "" THEN "/" ELSE q

\* filepath.Ext: the suffix from the last dot of the last element
RECURSIVE ExtFrom(_, _)
ExtFrom(path, i) ==
  IF i = 0 \/ At(path, i) = "/" THEN ""
  ELSE IF At(path, i) = "." THEN From(path, i)
  ELSE ExtFrom(path, i - 1)

Ext(path) == ExtFrom(path, Len(path))

(***************************************************************************)
(* package time                                                            *)
(***************************************************************************)
IsLeap(y) == (y % 4 = 0) /\ ((y % 100 # 0) \/ (y % 400 = 0))

DaysIn(m, y) ==
  IF m = 2 THEN (IF IsLeap(y) THEN 29 ELSE 28)
  ELSE IF m \in {4, 6, 9, 11} THEN 30
  ELSE 31

DaysInYear(y) == IF IsLeap(y) THEN 366 ELSE 365

RECURSIVE DaysBeforeMonth(_, _)
DaysBeforeMonth(m, y) ==
  IF m = 1 THEN 0 ELSE DaysBeforeMonth(m - 1, y) + DaysIn(m - 1, y)

\* leap years in 1..y
LeapsThrough(y) == (y \div 4) - (y \div 100) + (y \div 400)

\* days from 1970-01-01 to y-m-d
DaysSinceEpoch(y, m, d) ==
  365 * (y - 1970) + (LeapsThrough(y - 1) - LeapsThrough(1969))
  + DaysBeforeMonth(m, y) + (d - 1)

\* time.Date(y, m, d, hh, mm, ss, 0, loc) as an instant; out-of-range hh, mm
\* and ss carry over as in Go
Date(y, m, d, hh, mm, ss) ==
  DaysSinceEpoch(y, m, d) * 86400 + hh * 3600 + mm * 60 + ss

\* time.ParseInLocation("20060102_150405", ts, time.Local) for a text of the
\* shape 8 digits, "_", 6 digits: the fields are range-checked
ParseInLocation(ts) ==
  LET y  == NumVal(SubSeq(ts, 1, 4))
      m  == NumVal(SubSeq(ts, 5, 6))
      d  == NumVal(SubSeq(ts, 7, 8))
      hh == NumVal(SubSeq(ts, 10, 11))
      mm == NumVal(SubSeq(ts, 12, 13))
      ss == NumVal(SubSeq(ts, 14, 15))
      good == /\ Len(ts) = 15
              /\ AllDigits(ts, 1, 8) /\ At(ts, 9) = "_" /\ AllDigits(ts, 10, 15)
              /\ m \in 1..12
              /\ hh < 24 /\ mm < 60 /\ ss < 60
              /\ d >= 1 /\ d <= DaysIn(m, y)
  IN  [err |-> ~good, t |-> IF good THEN Date(y, m, d, hh, mm, ss) ELSE 0]

RECURSIVE YearOfDay(_, _)
YearOfDay(y, n) ==
  IF n < DaysInYear(y) THEN [year |-> y, yday |-> n]
  ELSE YearOfDay(y + 1, n - DaysInYear(y))

RECURSIVE MonthOfDay(_, _, _)
MonthOfDay(m, y, n) ==
  IF n < DaysIn(m, y) THEN [month |-> m, day |-> n + 1]
  ELSE MonthOfDay(m + 1, y, n - DaysIn(m, y))

\* the civil fields of an instant t >= 0
Civil(t) ==
  LET yd == YearOfDay(1970, t \div 86400)
      md == MonthOfDay(1, yd.year, yd.yday)
      s  == t % 86400
  IN  [year |-> yd.year, month |-> md.month, day |-> md.day,
       hour |-> s \div 3600, minute |-> (s % 3600) \div 60, second |-> s % 60]

Pad2(n) == DigitChar((n \div 10) % 10) \o DigitChar(n % 10)

Pad4(n) == Pad2(n \div 100) \o Pad2(n % 100)

\* t.Format("20060102_150405")
Format(t) ==
  LET c == Civil(t) IN
  Pad4(c.year) \o Pad2(c.month) \o Pad2(c.day) \o "_"
  \o Pad2(c.hour) \o Pad2(c.minute) \o Pad2(c.second)

(***************************************************************************)
(* The program's pure functions                                            *)
(***************************************************************************)
\* generateFileName, with the instant time.Now() returned
generateFileName(sourcePath, isDir, now) ==
  LET timeStamp == Format(now)
      fileName  == Base(sourcePath)
  IN  IF isDir THEN fileName \o "_" \o timeStamp \o ".zip"
      ELSE LET ext == Ext(fileName)
               nameWithoutExt == SubSeq(fileName, 1, Len(fileName) - Len(ext))
           IN  nameWithoutExt \o "_" \o timeStamp \o ext

parseSourcePaths(sourceFolders) == TrimmedNonEmpty(Split(sourceFolders, ","))

\* getNextCleanupTime, with the value of CLEANUP_TIME and the instant
\* time.Now() returned
getNextCleanupTime(cleanupTime, now) ==
  LET parts  == Split(cleanupTime, ":")
      hour   == Atoi(parts[1])
      minute == Atoi(parts[2])
      c      == Civil(now)
  IN  IF cleanupTime = "" THEN [err |-> TRUE, t |-> 0]
      ELSE IF Len(parts) # 2 THEN [err |-> TRUE, t |-> 0]
      ELSE IF hour.err \/ minute.err THEN [err |-> TRUE, t |-> 0]
      ELSE LET cleanupToday == Date(c.year, c.month, c.day, hour.val, minute.val, 0)
           IN  [err |-> FALSE,
                t   |-> IF cleanupToday < now THEN cleanupToday + 24 * 3600
                        ELSE cleanupToday]

\* getWhiteList, with the value of CLEANUP_WHITELIST
getWhiteList(whitelistStr) ==
  IF whitelistStr = "" THEN <<>>
  ELSE TrimmedNonEmpty(Split(whitelistStr, ","))

\* whether fileName[k+1..] is "_" 8 digits "_" 6 digits "." and then one or
\* more characters other than a line break, up to the end of the text
TimestampTailAt(fileName, k) ==
  /\ Len(fileName) >= k + 18
  /\ At(fileName, k + 1) = "_"
  /\ AllDigits(fileName, k + 2, k + 9)
  /\ At(fileName, k + 10) = "_"
  /\ AllDigits(fileName, k + 11, k + 16)
  /\ At(fileName, k + 17) = "."
  /\ \A i \in (k + 18)..Len(fileName) : At(fileName, i) # "\n"

\* LazyGroupLen with a greedy group, (.+): the longest length that matches
GreedyGroupLen(fileName, k) ==
  LET good == {j \in k..Len(fileName) :
                 /\ TimestampTailAt(fileName, j)
                 /\ \A i \in 1..j : At(fileName, i) # "\n"}
  IN  IF good = {} THEN 0 ELSE CHOOSE j \in good : \A h \in good : h <= j

\* the lazy (.+?) of the pattern: the group grows one character at a time,
\* never over a line break, and stops at the first length k for which the
\* rest of the pattern matches; 0 when the pattern does not match
RECURSIVE LazyGroupLen(_, _)
LazyGroupLen(fileName, k) ==
  IF k + 18 > Len(fileName) THEN 0
  ELSE IF At(fileName, k) = "\n" THEN 0
  ELSE IF TimestampTailAt(fileName, k) THEN k
  ELSE LazyGroupLen(fileName, k + 1)

\* parseFileName with the extension left out of the pattern:
\* ^(.+?)_(\d{8}_\d{6})
parseFileNameNoExt(fileName) ==
  LET good == {k \in 1..Len(fileName) :
                 /\ Len(fileName) >= k + 16
                 /\ At(fileName, k + 1) = "_"
                 /\ AllDigits(fileName, k + 2, k + 9)
                 /\ At(fileName, k + 10) = "_"
                 /\ AllDigits(fileName, k + 11, k + 16)
                 /\ \A i \in 1..k : At(fileName, i) # "\n"}
      k == CHOOSE k \in good : \A h \in good : k <= h
  IN  IF good # {}
      THEN [prefix      |-> SubSeq(fileName, 1, k),
            timeStamp   |-> SubSeq(fileName, k + 2, k + 16),
            isOurFormat |-> TRUE]
      ELSE [prefix |-> "", timeStamp |-> "", isOurFormat |-> FALSE]

\* parseFileName: ^(.+?)_(\d{8}_\d{6})\..+$
parseFileName(fileName) ==
  LET k == LazyGroupLen(fileName, 1) IN
  IF k > 0
  THEN [prefix      |-> SubSeq(fileName, 1, k),
        timeStamp   |-> SubSeq(fileName, k + 2, k + 16),
        isOurFormat |-> TRUE]
  ELSE [prefix |-> "", timeStamp |-> "", isOurFormat |-> FALSE]

\* isFileOlderThanDays answering "older" for a timestamp that does not parse
isFileOlderThanDaysFailClosed(timeStamp, maxDays, now) ==
  LET parsed == ParseInLocation(timeStamp) IN
  IF parsed.err THEN TRUE
  ELSE LET age == now - parsed.t IN age > maxDays * 24 * 3600

\* isFileOlderThanDays with >= for >
isFileOlderThanDaysAtLeast(timeStamp, maxDays, now) ==
  LET parsed == ParseInLocation(timeStamp) IN
  IF parsed.err THEN FALSE
  ELSE LET age == now - parsed.t IN age >= maxDays * 24 * 3600

\* isFileOlderThanDays, with the instant time.Now() returned.  age.Hours() >
\* float64(maxDays*24) is compared in seconds: both sides times 3600
isFileOlderThanDays(timeStamp, maxDays, now) ==
  LET parsed == ParseInLocation(timeStamp) IN
  IF parsed.err THEN FALSE
  ELSE LET age == now - parsed.t IN age > maxDays * 24 * 3600

\* isWhitelisted with strings.HasPrefix for ==
isWhitelistedByPrefix(prefix, allowed) ==
  \E i \in 1..Len(allowed) :
    /\ Len(allowed[i]) <= Len(prefix)
    /\ SubSeq(prefix, 1, Len(allowed[i])) = allowed[i]

isWhitelisted(prefix, allowed) ==
  \E i \in 1..Len(allowed) : prefix = allowed[i]

\* CleanupDecision with the whitelist consulted before the age
CleanupDecisionWhitelistFirst(fileName, days, allowed, now) ==
  LET p == parseFileName(fileName) IN
  IF ~p.isOurFormat THEN "unrecognized-format"
  ELSE IF isWhitelisted(p.prefix, allowed) THEN "whitelisted"
  ELSE IF ~isFileOlderThanDays(p.timeStamp, days, now)
  THEN "within-retention-window"
  ELSE "delete"

\* the checks of one iteration of performCleanup's loop, in the code's order
CleanupDecision(fileName, days, allowed, now) ==
  LET p == parseFileName(fileName) IN
  IF ~p.isOurFormat THEN "unrecognized-format"
  ELSE IF ~isFileOlderThanDays(p.timeStamp, days, now)
  THEN "within-retention-window"
  ELSE IF isWhitelisted(p.prefix, allowed) THEN "whitelisted"
  ELSE "delete"

(***************************************************************************)
(* Bounds and inputs                                                       *)
(***************************************************************************)
\* iterations of main's loop that are followed
MaxCycles == 2

\* objects in the target directory when a behaviour starts
MaxObjects == 2

\* the characters of the model's texts (tab, line feed, space, some
\* punctuation, digits and letters), in byte order
Alphabet ==
  "\t\n +,-./0123456789:ABCDEFGHIJKLMNOPQRSTUVWXYZ_abcdefghijklmnopqrstuvwxyz"

\* seconds that handling one file or one path takes
Elapsed == {0, 1}

\* seconds by which a sleep of main runs over (more than a day included)
Overrun == {0, 90000}

\* the local file system that os.Stat sees
DirPaths == {"/d/app", "/"}

\* paths that exist and that os.Stat may not examine
DeniedPaths == {"/d/secret"}

FilePaths == {"/d/a.txt", "/d/Makefile", "/d/r_20250101_000000.csv", "/d/.rc"}

\* values of SOURCEFOLDER
SourceFolderPool ==
  {"", "/d/app/, /d/a.txt", "/d/Makefile,/d/gone,,/",
   "/d/r_20250101_000000.csv , /d/.rc", "/d/secret"}

\* values of CLEANUP_TIME
CleanupTimePool == {"10:00", "", "10:00:00", "ten:00"}

\* values of CLEANUP_DAYS
CleanupDaysPool == {"", "0", "1", "-1", "7d"}

\* values of CLEANUP_WHITELIST
WhitelistPool == {"", " abc ,, report_20250101_000000,x"}

\* object names found in the target directory: foreign names, names of the
\* program's shape of several ages, with invalid timestamps, with a second
\* timestamp (after an underscore, after a dot), without an extension, with
\* a line break, and a directory marker
ObjectPool ==
  { "notes.txt",
    "sub/",
    "x_20251020_100000.log",
    "x_20251020_095959.log",
    "x_20251021_095000.log",
    "x_20251020_090000.log",
    "x_20251014_100000.log",
    "abc_20200101_000000.zip",
    "abcd_20200101_000000.zip",
    "ab_20200101_000000.zip",
    "ABC_20200101_000000.zip",
    "x_20251320_100000.log",
    "x_20251020_990000.log",
    "x_2025102_095000.log",
    "report_20250101_000000_20251021_095449.csv",
    "r_20250101_000000.a_20251021_095449.csv",
    "Makefile_20200101_000000",
    "a_20200101_000000.",
    "_20200101_000000.rc",
    "a\nb_20200101_000000.zip" }

\* the object names the whole-program specification starts from
SmallObjectPool == {"notes.txt", "abc_20200101_000000.zip"}

\* the subsets of S of at most k elements
RECURSIVE SubsetsUpTo(_, _)
SubsetsUpTo(S, k) ==
  IF k = 0 THEN {{}}
  ELSE LET smaller == SubsetsUpTo(S, k - 1) IN
       smaller \cup {b \cup {e} : b \in smaller, e \in S}

(***************************************************************************)
(* The object store's listing order: keys in byte order                    *)
(***************************************************************************)
CharRanks ==
  [c \in {At(Alphabet, r) : r \in 1..Len(Alphabet)} |->
     CHOOSE r \in 1..Len(Alphabet) : At(Alphabet, r) = c]

CharRank(c) == CharRanks[c]

RECURSIVE KeyLess(_, _)
KeyLess(a, b) ==
  IF b = "" THEN FALSE
  ELSE IF a = "" THEN TRUE
  ELSE IF At(a, 1) = At(b, 1) THEN KeyLess(Tail(a), Tail(b))
  ELSE CharRank(At(a, 1)) < CharRank(At(b, 1))

RECURSIVE SetToSeq(_)
SetToSeq(S) ==
  IF S = {} THEN <<>>
  ELSE LET e == CHOOSE e \in S : TRUE IN <<e>> \o SetToSeq(S \ {e})

HasSuffixSlash(key) == key # "" /\ At(key, Len(key)) = "/"

\* listCOSFiles on the target directory: the names of its objects, the
\* directory markers left out
listCOSFiles(objects) ==
  SortSeq(SetToSeq({k \in objects : ~HasSuffixSlash(k)}), KeyLess)

RECURSIVE TrimLeftSlash(_)
TrimLeftSlash(s) ==
  IF s # "" /\ At(s, 1) = "/" THEN TrimLeftSlash(Tail(s)) ELSE s

(***************************************************************************)
(* State                                                                   *)
(***************************************************************************)
VARIABLES
  env,             \* the process environment: variable name -> value
  clock,           \* the instant time.Now() returns
  timing,          \* how long the environment takes: [step, sleep], in seconds
  bucket,          \* names of the objects in the target directory
  mainPc,          \* main's position in its loop
  nextCleanupTime, \* main's local
  cycle,           \* iterations of main's loop begun
  bkPc,            \* performBackup's position ("idle": not running)
  sourcePaths, bkIdx, successCount, tempFiles,
  generated,       \* the last call of generateFileName: arguments and result
  clPc,            \* performCleanup's position ("idle": not running)
  cleanupDays, whitelist, fileNames, clIdx, deletedCount,
  events,          \* one record per file name the running pass has handled
  deleteCalls,     \* the calls of deleteCOSFile of the running pass
  reported,        \* the count the last finished pass printed, -1 before
  backupsDone,     \* returns of performBackup so far
  cleanupsDone     \* returns of performCleanup so far

mainVars == <<mainPc, nextCleanupTime, cycle>>

bkVars == <<bkPc, sourcePaths, bkIdx, successCount, tempFiles, generated>>

clVars == <<clPc, cleanupDays, whitelist, fileNames, clIdx, deletedCount,
            events, deleteCalls, reported>>

vars == <<env, clock, timing, bucket, mainVars, bkVars, clVars, backupsDone, cleanupsDone>>

NoGenerated == [sourcePath |-> "", isDir |-> FALSE, now |-> 0, name |-> ""]

PathKind(path) ==
  IF StripTrailingSlashes(path) \in DirPaths \/ path \in DirPaths THEN "dir"
  ELSE IF path \in FilePaths THEN "file"
  ELSE IF path \in DeniedPaths THEN "denied"
  ELSE "missing"

Instant(text) == ParseInLocation(text).t

\* the state in which main enters its loop
InitLocals ==
  /\ mainPc = "top" /\ nextCleanupTime = 0 /\ cycle = 0
  /\ bkPc = "idle" /\ sourcePaths = <<>> /\ bkIdx = 0 /\ successCount = 0
  /\ tempFiles = <<>> /\ generated = NoGenerated
  /\ clPc = "idle" /\ cleanupDays = 0 /\ whitelist = <<>> /\ fileNames = <<>>
  /\ clIdx = 0 /\ deletedCount = 0 /\ events = <<>> /\ deleteCalls = <<>>
  /\ reported = -1
  /\ backupsDone = 0 /\ cleanupsDone = 0

Init ==
  /\ env \in [ SOURCEFOLDER      : {"", "/d/app/, /d/a.txt", "/d/secret"},
               CLEANUP_TIME      : CleanupTimePool,
               CLEANUP_ENABLED   : {"true", "false"},
               CLEANUP_DAYS      : {"1"},
               CLEANUP_WHITELIST : {""} ]
  /\ clock = Instant("20251021_095959")
  /\ timing \in {[step |-> 1, sleep |-> 0], [step |-> 0, sleep |-> 90000]}
  /\ bucket \in SubsetsUpTo(SmallObjectPool, MaxObjects)
  /\ InitLocals

(***************************************************************************)
(* main's loop                                                             *)
(***************************************************************************)
\* lines 562-581: the next trigger time, then the sleep until it
MainWait ==
  /\ mainPc = "top"
  /\ cycle < MaxCycles
  /\ LET next == getNextCleanupTime(env.CLEANUP_TIME, clock)
         t    == IF next.err THEN clock + 24 * 3600 ELSE next.t
         waitDuration == t - clock
     IN  /\ nextCleanupTime' = t
         /\ clock' = (IF waitDuration > 0 THEN clock + waitDuration ELSE clock)
                     + timing.sleep
  /\ cycle' = cycle + 1
  /\ mainPc' = "callBackup"
  /\ UNCHANGED <<env, timing, bucket, bkVars, clVars, backupsDone, cleanupsDone>>

\* CallPerformBackup as "go performBackup(...)": main goes on at once
CallPerformBackupAsync ==
  /\ mainPc = "callBackup"
  /\ mainPc' = "callCleanup"
  /\ bkPc' = "start"

\* line 584: the call of performBackup; main goes on when it returns
CallPerformBackup ==
  /\ mainPc = "callBackup"
  /\ mainPc' = "inBackup"
  /\ bkPc' = "start"

MainCallBackup ==
  /\ CallPerformBackup
  /\ UNCHANGED <<env, timing, clock, bucket, nextCleanupTime, cycle, sourcePaths, bkIdx,
                 successCount, tempFiles, generated, clVars, backupsDone,
                 cleanupsDone>>

\* line 587: the call of performCleanup
CallPerformCleanup ==
  /\ mainPc = "callCleanup"
  /\ mainPc' = "inCleanup"
  /\ clPc' = "start"

MainCallCleanup ==
  /\ CallPerformCleanup
  /\ UNCHANGED <<env, timing, clock, bucket, nextCleanupTime, cycle, bkVars, cleanupDays,
                 whitelist, fileNames, clIdx, deletedCount, events, deleteCalls,
                 reported, backupsDone, cleanupsDone>>

\* line 591: time.Sleep(1 * time.Minute)
MainPause ==
  /\ mainPc = "pause"
  /\ clock' = clock + 60 + timing.sleep
  /\ mainPc' = "top"
  /\ UNCHANGED <<env, timing, bucket, nextCleanupTime, cycle, bkVars, clVars, backupsDone,
                 cleanupsDone>>

(***************************************************************************)
(* performBackup                                                           *)
(***************************************************************************)
\* lines 366-370: SOURCEFOLDER is not set; performBackup returns
BackupNoSource ==
  /\ bkPc = "start"
  /\ env.SOURCEFOLDER = ""
  /\ bkPc' = "idle"
  /\ mainPc' = "callCleanup"
  /\ backupsDone' = backupsDone + 1
  /\ UNCHANGED <<env, timing, clock, bucket, nextCleanupTime, cycle, sourcePaths, bkIdx,
                 successCount, tempFiles, generated, clVars, cleanupsDone>>

\* lines 372-381
BackupStart ==
  /\ bkPc = "start"
  /\ env.SOURCEFOLDER # ""
  /\ sourcePaths' = parseSourcePaths(env.SOURCEFOLDER)
  /\ bkIdx' = 1
  /\ successCount' = 0
  /\ tempFiles' = <<>>
  /\ bkPc' = "loop"
  /\ UNCHANGED <<env, timing, clock, bucket, mainVars, generated, clVars, backupsDone,
                 cleanupsDone>>

\* lines 383-397, one iteration: the path is missing or cannot be examined
BackupSkipPath ==
  /\ bkPc = "loop" /\ bkIdx <= Len(sourcePaths)
  /\ PathKind(sourcePaths[bkIdx]) \in {"missing", "denied"}
  /\ bkIdx' = bkIdx + 1
  /\ clock' = clock + timing.step
  /\ UNCHANGED <<env, timing, bucket, mainVars, bkPc, sourcePaths, successCount, tempFiles,
                 generated, clVars, backupsDone, cleanupsDone>>

\* lines 383-450, one iteration for a path that exists: the name is
\* generated, a directory is zipped, the artifact is uploaded
BackupPath ==
  /\ bkPc = "loop" /\ bkIdx <= Len(sourcePaths)
  /\ PathKind(sourcePaths[bkIdx]) \in {"dir", "file"}
  /\ LET sourcePath  == sourcePaths[bkIdx]
         isDir       == PathKind(sourcePath) = "dir"
         cosFileName == generateFileName(sourcePath, isDir, clock)
     IN  /\ generated' = [sourcePath |-> sourcePath, isDir |-> isDir,
                          now |-> clock, name |-> cosFileName]
         /\ \E zipped \in (IF isDir THEN BOOLEAN ELSE {TRUE}) :
            \E uploaded \in BOOLEAN :
              /\ tempFiles' = IF isDir /\ zipped
                              THEN Append(tempFiles, cosFileName) ELSE tempFiles
              /\ bucket' = IF zipped /\ uploaded
                           THEN bucket \cup {TrimLeftSlash(cosFileName)}
                           ELSE bucket
              /\ successCount' = IF zipped /\ uploaded
                                 THEN successCount + 1 ELSE successCount
  /\ bkIdx' = bkIdx + 1
  /\ clock' = clock + timing.step
  /\ UNCHANGED <<env, timing, mainVars, bkPc, sourcePaths, clVars, backupsDone,
                 cleanupsDone>>

\* lines 452-464: the temporary files are removed, the summary is printed and
\* performBackup returns to main
BackupFinish ==
  /\ bkPc = "loop" /\ bkIdx > Len(sourcePaths)
  /\ tempFiles' = <<>>
  /\ bkPc' = "idle"
  /\ mainPc' = "callCleanup"
  /\ backupsDone' = backupsDone + 1
  /\ UNCHANGED <<env, timing, clock, bucket, nextCleanupTime, cycle, sourcePaths, bkIdx,
                 successCount, generated, clVars, cleanupsDone>>

(***************************************************************************)
(* performCleanup                                                          *)
(***************************************************************************)
\* lines 477-483: the retention threshold from the value of CLEANUP_DAYS
CleanupDaysOf(cleanupDaysStr) ==
  IF cleanupDaysStr # "" /\ ~Atoi(cleanupDaysStr).err
  THEN Atoi(cleanupDaysStr).val
  ELSE 7

\* lines 469-472: cleanup is not enabled; performCleanup returns
CleanupDisabled ==
  /\ clPc = "start"
  /\ env.CLEANUP_ENABLED # "true"
  /\ clPc' = "idle"
  /\ mainPc' = "pause"
  /\ cleanupsDone' = cleanupsDone + 1
  /\ UNCHANGED <<env, timing, clock, bucket, nextCleanupTime, cycle, bkVars, cleanupDays,
                 whitelist, fileNames, clIdx, deletedCount, events, deleteCalls,
                 reported, backupsDone>>

\* lines 476-497: the configuration is read and the directory is listed
CleanupStart ==
  /\ clPc = "start"
  /\ env.CLEANUP_ENABLED = "true"
  /\ cleanupDays' = CleanupDaysOf(env.CLEANUP_DAYS)
  /\ whitelist' = getWhiteList(env.CLEANUP_WHITELIST)
  /\ fileNames' = listCOSFiles(bucket)
  /\ clIdx' = 1
  /\ deletedCount' = 0
  /\ events' = <<>>
  /\ deleteCalls' = <<>>
  /\ clPc' = "loop"
  /\ UNCHANGED <<env, timing, clock, bucket, mainVars, bkVars, reported, backupsDone,
                 cleanupsDone>>

\* lines 489-493: the listing fails; performCleanup returns
CleanupListFailed ==
  /\ clPc = "start"
  /\ env.CLEANUP_ENABLED = "true"
  /\ cleanupDays' = CleanupDaysOf(env.CLEANUP_DAYS)
  /\ whitelist' = getWhiteList(env.CLEANUP_WHITELIST)
  /\ clPc' = "idle"
  /\ mainPc' = "pause"
  /\ cleanupsDone' = cleanupsDone + 1
  /\ UNCHANGED <<env, timing, clock, bucket, nextCleanupTime, cycle, bkVars, fileNames,
                 clIdx, deletedCount, events, deleteCalls, reported, backupsDone>>

\* CountDeleted counting every attempt
CountAttempted(count, ok) == count + 1

\* lines 521-526: deletedCount after a call of deleteCOSFile
CountDeleted(count, ok) == IF ok THEN count + 1 ELSE count

\* lines 498-527, one iteration: the file name is parsed and classified; a
\* file to delete is handed to deleteCOSFile, which may fail
CleanupFile ==
  /\ clPc = "loop" /\ clIdx <= Len(fileNames)
  /\ LET fileName == fileNames[clIdx]
         p        == parseFileName(fileName)
         decision == CleanupDecision(fileName, cleanupDays, whitelist, clock)
     IN  /\ events' = Append(events,
                        [fileName |-> fileName, prefix |-> p.prefix,
                         timeStamp |-> p.timeStamp, isOurFormat |-> p.isOurFormat,
                         now |-> clock, decision |-> decision])
         /\ IF decision = "delete"
            THEN \E ok \in BOOLEAN :
                   /\ deleteCalls' = Append(deleteCalls,
                                       [fileName |-> fileName, ok |-> ok])
                   /\ bucket' = IF ok THEN bucket \ {fileName} ELSE bucket
                   /\ deletedCount' = CountDeleted(deletedCount, ok)
            ELSE UNCHANGED <<deleteCalls, bucket, deletedCount>>
  /\ clIdx' = clIdx + 1
  /\ clock' = clock + timing.step
  /\ UNCHANGED <<env, timing, mainVars, bkVars, clPc, cleanupDays, whitelist, fileNames,
                 reported, backupsDone, cleanupsDone>>

\* line 529: the count is printed; performCleanup returns to main
CleanupFinish ==
  /\ clPc = "loop" /\ clIdx > Len(fileNames)
  /\ reported' = deletedCount
  /\ clPc' = "idle"
  /\ mainPc' = "pause"
  /\ cleanupsDone' = cleanupsDone + 1
  /\ UNCHANGED <<env, timing, clock, bucket, nextCleanupTime, cycle, bkVars, cleanupDays,
                 whitelist, fileNames, clIdx, deletedCount, events, deleteCalls,
                 backupsDone>>

(***************************************************************************)
(* Specifications                                                          *)
(***************************************************************************)
NextCleanup ==
  \/ CleanupDisabled
  \/ CleanupStart
  \/ CleanupListFailed
  \/ CleanupFile
  \/ CleanupFinish

Next ==
  \/ MainWait
  \/ MainCallBackup
  \/ BackupNoSource
  \/ BackupStart
  \/ BackupSkipPath
  \/ BackupPath
  \/ BackupFinish
  \/ MainCallCleanup
  \/ NextCleanup
  \/ MainPause

\* the whole program
Spec == Init /\ [][Next]_vars

\* main has called performCleanup in its first iteration, after a backup
\* with nothing to back up; the directory holds any objects of ObjectPool
InitCleanup ==
  /\ env \in [ SOURCEFOLDER      : {""},
               CLEANUP_TIME      : {"10:00"},
               CLEANUP_ENABLED   : {"true", "false", ""},
               CLEANUP_DAYS      : CleanupDaysPool,
               CLEANUP_WHITELIST : WhitelistPool ]
  /\ clock = Instant("20251021_100000")
  /\ timing \in {[step |-> e, sleep |-> 0] : e \in Elapsed}
  /\ bucket \in SubsetsUpTo(ObjectPool, MaxObjects)
  /\ env.CLEANUP_ENABLED # "true" => bucket = {} /\ timing.step = 0
  /\ mainPc = "inCleanup" /\ nextCleanupTime = clock /\ cycle = 1
  /\ bkPc = "idle" /\ sourcePaths = <<>> /\ bkIdx = 0 /\ successCount = 0
  /\ tempFiles = <<>> /\ generated = NoGenerated
  /\ clPc = "start" /\ cleanupDays = 0 /\ whitelist = <<>> /\ fileNames = <<>>
  /\ clIdx = 0 /\ deletedCount = 0 /\ events = <<>> /\ deleteCalls = <<>>
  /\ reported = -1
  /\ backupsDone = 1 /\ cleanupsDone = 0

\* one cleanup pass over any directory
SpecCleanup == InitCleanup /\ [][NextCleanup]_vars

NextBackup ==
  \/ BackupNoSource
  \/ BackupStart
  \/ BackupSkipPath
  \/ BackupPath
  \/ BackupFinish

\* main has called performBackup in its first iteration
InitBackup ==
  /\ env \in [ SOURCEFOLDER      : SourceFolderPool,
               CLEANUP_TIME      : {"10:00"},
               CLEANUP_ENABLED   : {"true"},
               CLEANUP_DAYS      : {"1"},
               CLEANUP_WHITELIST : {""} ]
  /\ timing \in {[step |-> e, sleep |-> o] : e \in Elapsed, o \in Overrun}
  /\ nextCleanupTime = Instant("20251021_100000")
  /\ clock = nextCleanupTime + timing.sleep
  /\ bucket \in SubsetsUpTo(SmallObjectPool, MaxObjects)
  /\ mainPc = "inBackup" /\ cycle = 1
  /\ bkPc = "start" /\ sourcePaths = <<>> /\ bkIdx = 0 /\ successCount = 0
  /\ tempFiles = <<>> /\ generated = NoGenerated
  /\ clPc = "idle" /\ cleanupDays = 0 /\ whitelist = <<>> /\ fileNames = <<>>
  /\ clIdx = 0 /\ deletedCount = 0 /\ events = <<>> /\ deleteCalls = <<>>
  /\ reported = -1
  /\ backupsDone = 0 /\ cleanupsDone = 0

\* one backup of any of the source lists
SpecBackup == InitBackup /\ [][NextBackup]_vars

(***************************************************************************)
(* Vocabulary of the properties                                            *)
(***************************************************************************)
Range(q) == {q[i] : i \in 1..Len(q)}

\* the lengths k >= 1 of a leading segment of name after which name goes on
\* with "_", 8 digits, "_", 6 digits, "." and at least one more character
CanonicalSplits(name) ==
  {k \in 1..Len(name) :
     /\ Len(name) >= k + 18
     /\ At(name, k + 1) = "_"
     /\ \A i \in (k + 2)..(k + 9) : At(name, i) \in Digits
     /\ At(name, k + 10) = "_"
     /\ \A i \in (k + 11)..(k + 16) : At(name, i) \in Digits
     /\ At(name, k + 17) = "."}

MatchesCanonical(name) == CanonicalSplits(name) # {}

\* the embedded timestamp of event e is a valid local date-time
ValidTimestamp(e) == ~ParseInLocation(e.timeStamp).err

\* seconds from the embedded timestamp of event e to the instant it was read
AgeSeconds(e) == e.now - ParseInLocation(e.timeStamp).t

\* the threshold of the running pass, in seconds: maxAgeDays x 24 hours
ThresholdSeconds == cleanupDays * 24 * 3600

Deleted(name) == \E i \in 1..Len(deleteCalls) : deleteCalls[i].fileName = name

Attempts(name) ==
  Cardinality({i \in 1..Len(deleteCalls) : deleteCalls[i].fileName = name})

\* a pass has run to its end and printed its count
PassFinished == clPc = "idle" /\ reported >= 0 /\ Len(events) = clIdx - 1

(***************************************************************************)
(* Properties                                                              *)
(***************************************************************************)
\* C1: every file name a pass handles gets the decision of the four ordered
\* checks: not recognized -> unrecognized-format; else age not greater than
\* the threshold (a timestamp that does not parse counts as not greater) ->
\* within-retention-window; else prefix whitelisted -> whitelisted; else
\* delete.  deleteCOSFile is called for the delete decisions and no others.
C1_DecisionOrder ==
  /\ \A i \in 1..Len(events) :
       LET e == events[i]
           older  == ValidTimestamp(e) /\ AgeSeconds(e) > ThresholdSeconds
           listed == e.prefix \in Range(whitelist)
       IN  e.decision =
             (CASE ~e.isOurFormat -> "unrecognized-format"
                [] e.isOurFormat /\ ~older -> "within-retention-window"
                [] e.isOurFormat /\ older /\ listed -> "whitelisted"
                [] OTHER -> "delete")
  /\ \A i \in 1..Len(events) :
       Deleted(events[i].fileName) <=> events[i].decision = "delete"
  /\ \A i \in 1..Len(deleteCalls) :
       \E j \in 1..Len(events) : events[j].fileName = deleteCalls[i].fileName

\* a recognized name that is within the window and whitelisted was skipped as
\* within-retention-window, and another name of the pass was deleted
C1_Witness ==
  /\ \E i \in 1..Len(events) :
       /\ events[i].isOurFormat
       /\ events[i].prefix \in Range(whitelist)
       /\ events[i].decision = "within-retention-window"
  /\ deleteCalls # <<>>

\* C2: a listed name that is not <prefix>_<8 digits>_<6 digits>.<non-empty
\* ext> is skipped as unrecognized-format and deleteCOSFile is never called
\* on it, whatever the threshold, the whitelist and the time are.
C2_UnrecognizedSafety ==
  \A i \in 1..Len(events) :
    ~MatchesCanonical(events[i].fileName) =>
      /\ events[i].decision = "unrecognized-format"
      /\ ~Deleted(events[i].fileName)

\* with threshold 0, an old name that has no extension was skipped
C2_Witness ==
  /\ cleanupDays = 0
  /\ \E i \in 1..Len(events) :
       /\ events[i].fileName \in {"Makefile_20200101_000000", "a_20200101_000000."}
       /\ events[i].decision = "unrecognized-format"

\* C3: a name of the canonical shape whose timestamp is not a valid local
\* date-time is never deleted, and a pass that handles one goes on to the end
\* of its listing.
C3_InvalidTimestampKept ==
  /\ \A i \in 1..Len(events) :
       (events[i].isOurFormat /\ ~ValidTimestamp(events[i])) =>
         /\ events[i].decision # "delete"
         /\ ~Deleted(events[i].fileName)
  /\ (clPc = "idle" /\ reported >= 0) => Len(events) = Len(fileNames)

\* a finished pass kept a name with month 13 or hour 99 and handled another
\* name after it
C3_Witness ==
  /\ PassFinished
  /\ \E i \in 1..Len(events) :
       /\ events[i].fileName \in {"x_20251320_100000.log", "x_20251020_990000.log"}
       /\ events[i].decision = "within-retention-window"
       /\ i < Len(events)

\* C4: with maxAgeDays >= 0, a recognized name with a valid timestamp and a
\* prefix not whitelisted is kept when its age is at most maxAgeDays x 24
\* hours and deleted when its age is greater, to the second.
C4_ThresholdBoundary ==
  \A i \in 1..Len(events) :
    LET e == events[i] IN
    (/\ cleanupDays >= 0
     /\ e.isOurFormat /\ ValidTimestamp(e)
     /\ e.prefix \notin Range(whitelist)) =>
      /\ AgeSeconds(e) <= ThresholdSeconds => e.decision = "within-retention-window"
      /\ AgeSeconds(e) > ThresholdSeconds => e.decision = "delete"

\* with a threshold of one day or more, one pass kept a name aged exactly the
\* threshold, deleted one a second older (same calendar day) and one an hour
\* older
C4_Witness ==
  /\ cleanupDays >= 1
  /\ \E i \in 1..Len(events) :
       /\ events[i].isOurFormat /\ ValidTimestamp(events[i])
       /\ AgeSeconds(events[i]) = ThresholdSeconds
       /\ events[i].decision = "within-retention-window"
  /\ \E i \in 1..Len(events) :
       /\ events[i].isOurFormat /\ ValidTimestamp(events[i])
       /\ AgeSeconds(events[i]) \in {ThresholdSeconds + 1, ThresholdSeconds + 3600}
       /\ events[i].decision = "delete"

\* C5: a recognized name older than the threshold is kept as whitelisted
\* exactly when its prefix equals a whitelist entry, and is deleted otherwise.
C5_WhitelistExact ==
  \A i \in 1..Len(events) :
    LET e == events[i] IN
    (e.isOurFormat /\ ValidTimestamp(e) /\ AgeSeconds(e) > ThresholdSeconds) =>
      /\ e.decision = "whitelisted" <=> (\E w \in Range(whitelist) : w = e.prefix)
      /\ e.decision = "delete" <=> ~(\E w \in Range(whitelist) : w = e.prefix)
      /\ e.decision = "delete" => Deleted(e.fileName)

\* with "abc" whitelisted, an old name of prefix "abcd", "ab" or "ABC" was
\* handed to deleteCOSFile
C5_Witness ==
  /\ "abc" \in Range(whitelist)
  /\ \E i \in 1..Len(events) :
       /\ events[i].prefix \in {"abcd", "ab", "ABC"}
       /\ events[i].decision = "delete"
       /\ Deleted(events[i].fileName)

\* C6: when a pass has finished, every listed name has been handled, each
\* name classified delete has had exactly one call of deleteCOSFile and the
\* others none, whatever calls failed; the printed count is the number of
\* calls that succeeded, so the failures are the other calls.
C6_PartialFailure ==
  /\ \A name \in Range(fileNames) : Attempts(name) <= 1
  /\ (clPc = "idle" /\ reported >= 0) =>
       /\ Len(events) = Len(fileNames)
       /\ \A i \in 1..Len(events) :
            /\ events[i].fileName = fileNames[i]
            /\ Attempts(events[i].fileName)
                 = (IF events[i].decision = "delete" THEN 1 ELSE 0)
       /\ reported = Cardinality({i \in 1..Len(deleteCalls) : deleteCalls[i].ok})
       /\ Len(deleteCalls) - reported
            = Cardinality({i \in 1..Len(deleteCalls) : ~deleteCalls[i].ok})

\* a finished pass whose first delete failed and whose second succeeded
C6_Witness ==
  /\ PassFinished
  /\ Len(deleteCalls) >= 2
  /\ ~deleteCalls[1].ok
  /\ deleteCalls[2].ok
  /\ reported = 1

\* the logical name generateFileName keeps of a file path: its base without
\* the extension
LogicalName(sourcePath) ==
  LET fileName == Base(sourcePath) IN
  SubSeq(fileName, 1, Len(fileName) - Len(Ext(fileName)))

\* name holds "_", 8 digits, "_", 6 digits somewhere
HasTimestampLook(name) ==
  \E k \in 0..Len(name) :
    /\ Len(name) >= k + 16
    /\ At(name, k + 1) = "_"
    /\ \A i \in (k + 2)..(k + 9) : At(name, i) \in Digits
    /\ At(name, k + 10) = "_"
    /\ \A i \in (k + 11)..(k + 16) : At(name, i) \in Digits

\* C7: the name generated for a file whose logical name L holds nothing that
\* looks like a timestamp decodes to recognized, prefix L and the timestamp
\* of the instant of generation.
C7_RoundTrip ==
  (generated.name # "" /\ ~generated.isDir
   /\ ~HasTimestampLook(LogicalName(generated.sourcePath))) =>
    parseFileName(generated.name)
      = [prefix      |-> LogicalName(generated.sourcePath),
         timeStamp   |-> Format(generated.now),
         isOurFormat |-> TRUE]

\* C8: the threshold a pass runs with is not negative, and is 7 when
\* CLEANUP_DAYS is empty or is not the text of an integer.
C8_ThresholdNonNegative ==
  clPc = "loop" =>
    /\ cleanupDays >= 0
    /\ (env.CLEANUP_DAYS = "" \/ Atoi(env.CLEANUP_DAYS).err) => cleanupDays = 7

\* C9: backup and cleanup never run at once; while performBackup runs, main
\* waits in its call and the earlier iterations are complete; while
\* performCleanup runs, this iteration's backup has returned; main computes
\* the next trigger time only when both have returned.
C9_OneCycleAtATime ==
  /\ ~(bkPc # "idle" /\ clPc # "idle")
  /\ bkPc # "idle" =>
       mainPc = "inBackup" /\ backupsDone = cycle - 1 /\ cleanupsDone = cycle - 1
  /\ clPc # "idle" =>
       mainPc = "inCleanup" /\ backupsDone = cycle /\ cleanupsDone = cycle - 1
  /\ mainPc = "callCleanup" => backupsDone = cycle /\ cleanupsDone = cycle - 1
  /\ mainPc \in {"top", "pause"} => backupsDone = cycle /\ cleanupsDone = cycle

\* the second iteration's cleanup is handling files after its backup uploaded
C9_Witness ==
  /\ cycle = 2
  /\ clPc = "loop" /\ clIdx > 1
  /\ successCount > 0

\* C10: a recognized name is split at the shortest non-empty leading segment
\* after which the name goes on with "_", 8 digits, "_", 6 digits, "." and at
\* least one character; the timestamp is the 15 characters after that "_".
\* A name not recognized gives an empty prefix and timestamp.
C10_ShortestPrefix ==
  \A i \in 1..Len(events) :
    LET e == events[i]
        K == CanonicalSplits(e.fileName)
    IN  IF e.isOurFormat
        THEN /\ K # {}
             /\ Len(e.prefix) \in K
             /\ \A k \in K : Len(e.prefix) <= k
             /\ e.prefix = SubSeq(e.fileName, 1, Len(e.prefix))
             /\ e.timeStamp = SubSeq(e.fileName, Len(e.prefix) + 2, Len(e.prefix) + 16)
        ELSE e.prefix = "" /\ e.timeStamp = ""

\* both names with two timestamps were split: the one with a dot after the
\* first timestamp at it, the other at its second
C10_Witness ==
  /\ \E i \in 1..Len(events) :
       /\ events[i].fileName = "r_20250101_000000.a_20251021_095449.csv"
       /\ events[i].prefix = "r"
       /\ events[i].timeStamp = "20250101_000000"
  /\ \E i \in 1..Len(events) :
       /\ events[i].fileName = "report_20250101_000000_20251021_095449.csv"
       /\ events[i].prefix = "report_20250101_000000"
       /\ events[i].timeStamp = "20251021_095449"

====
